---- MODULE Spec2Model ----
(***************************************************************************)
(* A model of the rheos stream pipeline (github.com/dmksnnk/rheos).        *)
(*                                                                         *)
(* A pipeline is a source task, a chain of stage tasks and the drain task  *)
(* of a terminal consumer.  Every task is a goroutine of one errgroup and  *)
(* the tasks are joined by Go channels.  The model keeps one record per    *)
(* goroutine (its position in the code and its locals), one record per     *)
(* channel, the caller's context, the errgroup of the pipeline and the     *)
(* nested errgroup of every parallel stage.                                *)
(*                                                                         *)
(* golang.org/x/sync/errgroup and context are libraries: Go(f) records the *)
(* first non-nil error a task returns and then cancels the group's         *)
(* context, Wait blocks until every task has returned and gives that first *)
(* error.  A context derived from a cancelled context is cancelled.        *)
(***************************************************************************)
EXTENDS Integers, Sequences, FiniteSets, Bags, TLC

\* ------------------------------------------------------------------ bounds
MaxLen == 3
MaxBatch == 2
MaxWorkers == 2
MaxCap == 2

\* The values carried by a stream.
Vals == {1, 2}

VARIABLES
    cfg,        \* the pipeline as the caller built it (never changes)
    t,          \* the goroutines: task id -> [pc, elem, out, batch, idx, ret]
    ch,         \* the channels: index of the writing stage -> [buf, closed]
    parentDone, \* the caller's context is cancelled
    eg,         \* the errgroup of the pipeline: [err, cancelled]
    nest,       \* the nested errgroup of a parallel stage: stage -> [err, cancelled]
    acc,        \* the accumulator the terminal callback folds into; the pairs All yields
    calls,      \* the items the terminal callback was invoked on, in order
    mainPc,     \* the caller: "wait" in eg.Wait or in its loop over All, "returned" after it
    result      \* what the terminal consumer returned: [val, err]

vars == <<cfg, t, ch, parentDone, eg, nest, acc, calls, mainPc, result>>

\* ------------------------------------------------------------ pure helpers
RECURSIVE SeqsUpTo(_, _)
SeqsUpTo(S, n) ==
    IF n = 0 THEN {<<>>}
    ELSE LET shorter == SeqsUpTo(S, n - 1)
         IN  shorter \cup {Append(s, x) : s \in {q \in shorter : Len(q) = n - 1}, x \in S}

RECURSIVE SeqToBag(_)
SeqToBag(s) ==
    IF s = <<>> THEN EmptyBag ELSE SetToBag({Head(s)}) (+) SeqToBag(Tail(s))

\* The callbacks the tests and examples pass to the stages.
ApplyFn(name, x) ==
    CASE name = "id"  -> x
      [] name = "inc" -> x + 1
      [] name = "dbl" -> 2 * x

RECURSIVE Compose(_, _)
Compose(fs, x) ==
    IF fs = <<>> THEN x ELSE Compose(Tail(fs), ApplyFn(Head(fs), x))

Keep(name, x) ==
    CASE name = "all"  -> TRUE
      [] name = "none" -> FALSE
      [] name = "even" -> x % 2 = 0

\* A mapper of Map and ParMap: func(ctx, I) (O, error).
Mapper(cb, x) ==
    [val |-> Compose(cb.fn, x),
     err |-> IF x \in cb.errOn THEN cb.err ELSE "nil"]

\* A callback of FilterMap and ParFilterMap: func(ctx, I) (O, bool, error).
FilterMapCallback(cb, x) ==
    [val |-> Compose(cb.fn, x),
     ok  |-> Keep(cb.keep, x),
     err |-> IF x \in cb.errOn THEN cb.err ELSE "nil"]

\* The callback Filter hands to FilterMap: the element itself, the
\* predicate's answer and the predicate's error.
FilterCallback(cb, x) ==
    [val |-> x,
     ok  |-> Keep(cb.keep, x),
     err |-> IF x \in cb.errOn THEN cb.err ELSE "nil"]

\* The callback ParMap hands to ParFilterMap: always included.
ParMapCallback(cb, x) ==
    [val |-> Mapper(cb, x).val, ok |-> TRUE, err |-> Mapper(cb, x).err]

\* Option handling in which the first option stays.
ChanCapFirst(ops) == IF ops = <<>> THEN 0 ELSE ops[1]

\* Option handling: every option replaces the channel, the last one stays.
ChanCap(ops) == IF ops = <<>> THEN 0 ELSE ops[Len(ops)]

\* ------------------------------------------------------------ task naming
NumStages == Len(cfg.stages)
TermStage == NumStages + 1

Tid(i) == 10 * i
StageOf(id) == id \div 10
IsWorker(id) == id % 10 # 0

IsPar(i) == i \in 1..NumStages /\ cfg.stages[i].kind \in {"ParMap", "ParFilterMap", "ParFilter"}

Workers(i) == IF IsPar(i) THEN {Tid(i) + w : w \in 1..cfg.stages[i].num} ELSE {}

Tasks == {Tid(i) : i \in 0..TermStage} \cup UNION {Workers(i) : i \in 1..NumStages}

KindOf(id) ==
    IF IsWorker(id) THEN "Worker"
    ELSE IF StageOf(id) = 0 THEN cfg.src.kind
    ELSE IF StageOf(id) = TermStage THEN (IF cfg.term.kind = "All" THEN "All" ELSE "ForEach")
    ELSE cfg.stages[StageOf(id)].kind

OutCh(id) == StageOf(id)
InCh(id) == StageOf(id) - 1

CapOf(c) == IF c = 0 THEN ChanCap(cfg.src.ops) ELSE ChanCap(cfg.stages[c].ops)

\* The goroutines that range over channel c and those that push into it.
Receivers(c) == IF IsPar(c + 1) THEN Workers(c + 1) ELSE {Tid(c + 1)}

\* ctx.Err() # nil of the context a task uses: the pipeline's context, or for
\* a worker of a parallel stage the context of the nested group.
CtxDone(id) ==
    \/ parentDone
    \/ eg.cancelled
    \/ IsWorker(id) /\ nest[StageOf(id)].cancelled

Blank == [pc |-> "recv", elem |-> 0, out |-> 0, batch |-> <<>>, idx |-> 1, ret |-> "nil"]

HasOut(id) == ~IsWorker(id) /\ StageOf(id) # TermStage

\* A task that closes its output only at the end of its loop, not on the
\* early returns.
ReturnClosesAtEnd(tt, id, e) ==
    [tt EXCEPT !.pc = IF HasOut(id) /\ e = "nil" THEN "close"
                      ELSE IF e = "nil" THEN "done" ELSE "ret",
               !.ret = e, !.elem = 0, !.out = 0, !.batch = <<>>]

\* A task leaves its function with error e: the deferred close(output) of a
\* task that owns a channel runs first, then the errgroup sees the error.  A
\* nil return changes nothing in the errgroup but the count of running tasks.
Return(tt, id, e) ==
    [tt EXCEPT !.pc = IF HasOut(id) THEN "close" ELSE IF e = "nil" THEN "done" ELSE "ret",
               !.ret = e, !.elem = 0, !.out = 0, !.batch = <<>>]

\* -------------------------------------------------- the bodies of the stages
\* Map: `for elem := range pipe.in`, one element received.
MapRecv(tt, v) == [tt EXCEPT !.pc = "call", !.elem = v]

\* Map with the slip of pushing the element instead of the mapped value.
MapCallPushesElem(tt, id) ==
    LET r == Mapper(cfg.stages[StageOf(id)].cb, tt.elem)
    IN  IF r.err # "nil" THEN Return(tt, id, r.err)
        ELSE [tt EXCEPT !.pc = "push", !.out = tt.elem, !.elem = 0]

\* Map: mapper(pipe.ctx, elem), then return the error or go on to push.
MapCall(tt, id) ==
    LET r == Mapper(cfg.stages[StageOf(id)].cb, tt.elem)
    IN  IF r.err # "nil" THEN Return(tt, id, r.err)
        ELSE [tt EXCEPT !.pc = "push", !.out = r.val, !.elem = 0]

\* The callback a FilterMap-shaped loop runs: FilterMap's own, or the one
\* that Filter, ParMap or ParFilter wraps around the caller's.
CallbackOf(st, x) ==
    CASE st.kind \in {"FilterMap", "ParFilterMap"} -> FilterMapCallback(st.cb, x)
      [] st.kind \in {"Filter", "ParFilter"}       -> FilterCallback(st.cb, x)
      [] st.kind = "ParMap"                        -> ParMapCallback(st.cb, x)

\* The body of FilterMap's loop for the stage st: callback, error,
\* exclusion, push.
FilterMapBody(st, tt, id) ==
    LET r == CallbackOf(st, tt.elem)
    IN  IF r.err # "nil" THEN Return(tt, id, r.err)
        ELSE IF ~r.ok THEN [tt EXCEPT !.pc = "recv", !.elem = 0]
        ELSE [tt EXCEPT !.pc = "push", !.out = r.val, !.elem = 0]

\* FilterMap with the `if !ok { continue }` left out.
FilterMapCallNoSkip(tt, id) ==
    LET r == CallbackOf(cfg.stages[StageOf(id)], tt.elem)
    IN  IF r.err # "nil" THEN Return(tt, id, r.err)
        ELSE [tt EXCEPT !.pc = "push", !.out = r.val, !.elem = 0]

\* FilterMap and the workers of ParFilterMap: callback, error, exclusion, push.
FilterMapCall(tt, id) == FilterMapBody(cfg.stages[StageOf(id)], tt, id)

\* Batch that goes on appending to the batch it has pushed.
BatchRecvNoReset(tt, size, v) ==
    LET b == Append(tt.batch, v)
    IN  IF Len(b) = size
        THEN [tt EXCEPT !.pc = "push", !.out = b, !.batch = b]
        ELSE [tt EXCEPT !.batch = b]

\* Batch: append the element, push the batch once it has `size` elements.
BatchRecv(tt, size, v) ==
    LET b == Append(tt.batch, v)
    IN  IF Len(b) = size
        THEN [tt EXCEPT !.pc = "push", !.out = b, !.batch = <<>>]
        ELSE [tt EXCEPT !.batch = b]

\* Batch with the final flush of the partial batch left out.
BatchClosedNoFlush(tt, id) == Return(tt, id, "nil")

\* Batch: upstream is closed, flush a non-empty partial batch.
BatchClosed(tt, id) ==
    IF Len(tt.batch) > 0
    THEN [tt EXCEPT !.pc = "flush", !.out = tt.batch, !.batch = <<>>]
    ELSE Return(tt, id, "nil")

\* UnBatch that pushes the first element of a batch and drops the rest.
UnBatchNextFirstOnly(tt, b) ==
    IF b = <<>> THEN [tt EXCEPT !.pc = "recv", !.out = 0, !.batch = <<>>]
    ELSE [tt EXCEPT !.pc = "push", !.out = Head(b), !.batch = <<>>]

\* UnBatch: `for _, elem := range batch`, one push per element.
UnBatchNext(tt, b) ==
    IF b = <<>> THEN [tt EXCEPT !.pc = "recv", !.out = 0, !.batch = <<>>]
    ELSE [tt EXCEPT !.pc = "push", !.out = Head(b), !.batch = Tail(b)]

\* ForEach and All: one element received, next the check of pipe.ctx.Err().
ForEachRecv(tt, v) == [tt EXCEPT !.pc = "check", !.elem = v]

\* What a task does with the element v its range loop received.
OnRecv(id, v) ==
    LET k == KindOf(id)
        tt == t[id]
    IN  CASE k = "Map"     -> MapRecv(tt, v)
          [] k \in {"FilterMap", "Filter", "Worker"} -> MapRecv(tt, v)
          [] k = "Batch"   -> BatchRecv(tt, cfg.stages[StageOf(id)].size, v)
          [] k = "UnBatch" -> UnBatchNext(tt, v)
          [] k \in {"ForEach", "All"} -> ForEachRecv(tt, v)

\* What a task does when its range loop finds the channel closed and empty.
OnClosed(id) ==
    IF KindOf(id) = "Batch" THEN BatchClosed(t[id], id)
    ELSE Return(t[id], id, "nil")

\* What a task does after push returned nil.
AfterPush(id) ==
    LET k == KindOf(id)
        tt == t[id]
    IN  CASE k \in {"FromSlice", "FromIter", "FromSeq2"} ->
               [tt EXCEPT !.pc = "seq", !.out = 0]
          [] k = "UnBatch" -> UnBatchNext(tt, tt.batch)
          [] k = "Batch" /\ tt.pc = "flush" -> Return(tt, id, "nil")
          [] OTHER -> [tt EXCEPT !.pc = "recv", !.out = 0]

\* ---------------------------------------------------------------- actions
\* FromIter that drops the error of the sequence and returns push's.
SeqStepDropsError(id) ==
    /\ KindOf(id) \in {"FromSlice", "FromIter"}
    /\ t[id].pc = "seq"
    /\ LET tt == t[id]
           s == cfg.src
       IN  t' = [t EXCEPT ![id] =
                   IF s.errAfter = tt.idx - 1 \/ (tt.idx > Len(s.items) /\ ~s.loop)
                   THEN Return(tt, id, "nil")
                   ELSE IF tt.idx > Len(s.items)
                   THEN [tt EXCEPT !.pc = "push", !.out = s.items[Len(s.items)]]
                   ELSE [tt EXCEPT !.pc = "push", !.out = s.items[tt.idx],
                                   !.idx = tt.idx + 1]]
    /\ UNCHANGED <<cfg, ch, parentDone, eg, nest, acc, calls, mainPc, result>>

\* FromIter (and FromSlice through it): the sequence yields its next
\* element to pushFn, returns its error, or ends.  A sequence that never
\* ends (s.loop) yields its items and then its last item over and over.
SeqStep(id) ==
    /\ KindOf(id) \in {"FromSlice", "FromIter"}
    /\ t[id].pc = "seq"
    /\ LET tt == t[id]
           s == cfg.src
       IN  t' = [t EXCEPT ![id] =
                   IF s.errAfter = tt.idx - 1 THEN Return(tt, id, s.err)
                   ELSE IF tt.idx > Len(s.items) /\ ~s.loop THEN Return(tt, id, "nil")
                   ELSE IF tt.idx > Len(s.items)
                   THEN [tt EXCEPT !.pc = "push", !.out = s.items[Len(s.items)]]
                   ELSE [tt EXCEPT !.pc = "push", !.out = s.items[tt.idx],
                                   !.idx = tt.idx + 1]]
    /\ UNCHANGED <<cfg, ch, parentDone, eg, nest, acc, calls, mainPc, result>>

\* FromSeq2: the iterator yields (elem, nil), or (zero, err) which stops it.
Seq2Step(id) ==
    /\ KindOf(id) = "FromSeq2"
    /\ t[id].pc = "seq"
    /\ LET tt == t[id]
           s == cfg.src
           seqErr == IF s.errAfter = tt.idx - 1 THEN s.err ELSE "nil"
       IN  t' = [t EXCEPT ![id] =
                   IF seqErr # "nil" THEN Return(tt, id, seqErr)
                   ELSE IF tt.idx > Len(s.items) THEN Return(tt, id, "nil")
                   ELSE [tt EXCEPT !.pc = "push", !.out = s.items[tt.idx],
                                   !.idx = tt.idx + 1]]
    /\ UNCHANGED <<cfg, ch, parentDone, eg, nest, acc, calls, mainPc, result>>

Pushing(id) == t[id].pc \in {"push", "flush"}

\* A send that completes without anybody receiving the item.
HandoffLosesItem(id, r) ==
    /\ Pushing(id)
    /\ CapOf(OutCh(id)) = 0
    /\ t[r].pc = "recv"
    /\ t' = [t EXCEPT ![id] = AfterPush(id)]
    /\ UNCHANGED <<cfg, ch, parentDone, eg, nest, acc, calls, mainPc, result>>

\* A send whose item reaches the receiver while the sender still has it.
HandoffKeepsItem(id, r) ==
    /\ Pushing(id)
    /\ CapOf(OutCh(id)) = 0
    /\ t[r].pc = "recv"
    /\ t' = [t EXCEPT ![r] = OnRecv(r, t[id].out)]
    /\ UNCHANGED <<cfg, ch, parentDone, eg, nest, acc, calls, mainPc, result>>

\* push, `case ch <- item` on an unbuffered channel: the send completes
\* together with the receive of a goroutine waiting in its range loop.
Handoff(id, r) ==
    /\ Pushing(id)
    /\ CapOf(OutCh(id)) = 0
    /\ t[r].pc = "recv"
    /\ t' = [t EXCEPT ![id] = AfterPush(id), ![r] = OnRecv(r, t[id].out)]
    /\ UNCHANGED <<cfg, ch, parentDone, eg, nest, acc, calls, mainPc, result>>

\* push, `case ch <- item` on a buffered channel with free capacity.
Enqueue(id) ==
    /\ Pushing(id)
    /\ Len(ch[OutCh(id)].buf) < CapOf(OutCh(id))
    /\ ch' = [ch EXCEPT ![OutCh(id)].buf = Append(@, t[id].out)]
    /\ t' = [t EXCEPT ![id] = AfterPush(id)]
    /\ UNCHANGED <<cfg, parentDone, eg, nest, acc, calls, mainPc, result>>

\* push as a bare `ch <- item`: the context is never looked at.
PushIgnoresCtx(id) ==
    /\ Pushing(id)
    /\ FALSE
    /\ UNCHANGED vars

\* push, `case <-ctx.Done()`: the item is not sent, ctx.Err() is returned.
PushCancelled(id) ==
    /\ Pushing(id)
    /\ CtxDone(id)
    /\ t' = [t EXCEPT ![id] = Return(t[id], id, "Canceled")]
    /\ UNCHANGED <<cfg, ch, parentDone, eg, nest, acc, calls, mainPc, result>>

\* A channel that hands out the newest buffered element first.
DequeueNewest(r) ==
    /\ t[r].pc = "recv"
    /\ StageOf(r) > 0
    /\ ch[InCh(r)].buf # <<>>
    /\ ch' = [ch EXCEPT ![InCh(r)].buf = SubSeq(@, 1, Len(@) - 1)]
    /\ t' = [t EXCEPT ![r] = OnRecv(r, ch[InCh(r)].buf[Len(ch[InCh(r)].buf)])]
    /\ UNCHANGED <<cfg, parentDone, eg, nest, acc, calls, mainPc, result>>

\* `for elem := range pipe.in` takes the oldest buffered element.
Dequeue(r) ==
    /\ t[r].pc = "recv"
    /\ StageOf(r) > 0
    /\ ch[InCh(r)].buf # <<>>
    /\ ch' = [ch EXCEPT ![InCh(r)].buf = Tail(@)]
    /\ t' = [t EXCEPT ![r] = OnRecv(r, Head(ch[InCh(r)].buf))]
    /\ UNCHANGED <<cfg, parentDone, eg, nest, acc, calls, mainPc, result>>

\* `for elem := range pipe.in` ends: the channel is closed and drained.
RecvClosed(r) ==
    /\ t[r].pc = "recv"
    /\ StageOf(r) > 0
    /\ KindOf(r) # "All"
    /\ ch[InCh(r)].buf = <<>>
    /\ ch[InCh(r)].closed
    /\ t' = [t EXCEPT ![r] = OnClosed(r)]
    /\ UNCHANGED <<cfg, ch, parentDone, eg, nest, acc, calls, mainPc, result>>

\* The callback of a stage runs on the element; the callbacks of the
\* cancellation tests call the caller's cancel() on the way.
Call(id) ==
    /\ StageOf(id) \in 1..NumStages
    /\ t[id].pc = "call"
    /\ LET st == cfg.stages[StageOf(id)]
       IN  /\ t' = [t EXCEPT ![id] = IF st.kind = "Map" THEN MapCall(t[id], id)
                                     ELSE FilterMapCall(t[id], id)]
           /\ parentDone' = (parentDone \/ t[id].elem \in st.cb.cancelOn)
    /\ UNCHANGED <<cfg, ch, eg, nest, acc, calls, mainPc, result>>

\* The deferred close(output).
Close(id) ==
    /\ t[id].pc = "close"
    /\ ch' = [ch EXCEPT ![OutCh(id)].closed = TRUE]
    /\ t' = [t EXCEPT ![id].pc = IF t[id].ret = "nil" THEN "done" ELSE "ret"]
    /\ UNCHANGED <<cfg, parentDone, eg, nest, acc, calls, mainPc, result>>

\* An errgroup that keeps the last error instead of the first.
GroupReturnLastWins(g, e) ==
    IF e # "nil" THEN [err |-> e, cancelled |-> TRUE] ELSE g

\* errgroup: the first non-nil error of a group is kept and cancels it.
GroupReturn(g, e) ==
    IF e # "nil" /\ g.err = "nil" THEN [err |-> e, cancelled |-> TRUE]
    ELSE IF e # "nil" THEN [g EXCEPT !.cancelled = TRUE]
    ELSE g

\* The function given to eg.Go returns.
TaskReturn(id) ==
    /\ t[id].pc = "ret"
    /\ t' = [t EXCEPT ![id].pc = "done"]
    /\ IF IsWorker(id)
       THEN /\ nest' = [nest EXCEPT ![StageOf(id)] = GroupReturn(@, t[id].ret)]
            /\ eg' = eg
       ELSE /\ eg' = GroupReturn(eg, t[id].ret)
            /\ nest' = nest
    /\ UNCHANGED <<cfg, ch, parentDone, acc, calls, mainPc, result>>

\* The supervising task returning without waiting for its workers.
SupervisorNoWait(id) ==
    /\ t[id].pc = "wait"
    /\ t' = [t EXCEPT ![id] = Return(t[id], id, nest[StageOf(id)].err)]
    /\ nest' = [nest EXCEPT ![StageOf(id)].cancelled = TRUE]
    /\ UNCHANGED <<cfg, ch, parentDone, eg, acc, calls, mainPc, result>>

\* The supervising task of a parallel stage: `return eg.Wait()`.
SupervisorWait(id) ==
    /\ t[id].pc = "wait"
    /\ \A w \in Workers(StageOf(id)) : t[w].pc = "done"
    /\ t' = [t EXCEPT ![id] = Return(t[id], id, nest[StageOf(id)].err)]
    /\ nest' = [nest EXCEPT ![StageOf(id)].cancelled = TRUE]
    /\ UNCHANGED <<cfg, ch, parentDone, eg, acc, calls, mainPc, result>>

\* ForEach without the check of pipe.ctx.Err().
ForEachNoCheck(id) ==
    /\ KindOf(id) = "ForEach"
    /\ t[id].pc = "check"
    /\ t' = [t EXCEPT ![id].pc = "call"]
    /\ UNCHANGED <<cfg, ch, parentDone, eg, nest, acc, calls, mainPc, result>>

\* ForEach: `if pipe.ctx.Err() != nil { return pipe.ctx.Err() }`.
ForEachCheck(id) ==
    /\ KindOf(id) = "ForEach"
    /\ t[id].pc = "check"
    /\ t' = [t EXCEPT ![id] = IF CtxDone(id) THEN Return(t[id], id, "Canceled")
                              ELSE [t[id] EXCEPT !.pc = "call"]]
    /\ UNCHANGED <<cfg, ch, parentDone, eg, nest, acc, calls, mainPc, result>>

\* The accumulators of the tests: counting, and the concatenation of
\* ExampleReduce (acc + elem on decimal strings, read as the number they spell).
Fold(name, a, x) ==
    CASE name = "count"  -> a + 1
      [] name = "concat" -> 10 * a + x

\* Reduce whose closure folds into the initial value every time, never
\* keeping what the accumulator gave back.
AccumForgets(term, a, x) ==
    CASE term.kind = "Collect" -> [val |-> Append(a, x), err |-> "nil"]
      [] term.kind = "Reduce"  ->
            IF x \in term.errOn THEN [val |-> a, err |-> term.err]
            ELSE [val |-> Fold(term.fold, term.init, x), err |-> "nil"]
      [] term.kind = "ForEach" ->
            [val |-> a, err |-> IF x \in term.errOn THEN term.err ELSE "nil"]

\* The accumulator of Reduce; Collect's appends and never fails.
Accum(term, a, x) ==
    CASE term.kind = "Collect" -> [val |-> Append(a, x), err |-> "nil"]
      [] term.kind = "Reduce"  ->
            IF x \in term.errOn THEN [val |-> a, err |-> term.err]
            ELSE [val |-> Fold(term.fold, a, x), err |-> "nil"]
      [] term.kind = "ForEach" ->
            [val |-> a, err |-> IF x \in term.errOn THEN term.err ELSE "nil"]

\* ForEach that goes on with the next item after its callback failed.
ForEachCallIgnoresError(id) ==
    /\ KindOf(id) = "ForEach"
    /\ t[id].pc = "call"
    /\ LET r == Accum(cfg.term, acc, t[id].elem)
       IN  /\ acc' = r.val
           /\ calls' = Append(calls, t[id].elem)
           /\ t' = [t EXCEPT ![id] = [t[id] EXCEPT !.pc = "recv", !.elem = 0, !.ret = r.err]]
    /\ UNCHANGED <<cfg, ch, parentDone, eg, nest, mainPc, result>>

\* ForEach: callback(pipe.ctx, elem); for Reduce the closure
\* `initial, err = accum(initial, elem)`.
ForEachCall(id) ==
    /\ KindOf(id) = "ForEach"
    /\ t[id].pc = "call"
    /\ LET r == Accum(cfg.term, acc, t[id].elem)
       IN  /\ acc' = r.val
           /\ calls' = Append(calls, t[id].elem)
           /\ t' = [t EXCEPT ![id] = IF r.err # "nil" THEN Return(t[id], id, r.err)
                                     ELSE [t[id] EXCEPT !.pc = "recv", !.elem = 0]]
    /\ UNCHANGED <<cfg, ch, parentDone, eg, nest, mainPc, result>>

\* Reduce giving back the initial value whenever ForEach returned an error.
WaitDiscardsPartial ==
    /\ mainPc = "wait"
    /\ \A id \in DOMAIN t : ~IsWorker(id) => t[id].pc = "done"
    /\ mainPc' = "returned"
    /\ result' = [val |-> IF eg.err = "nil" THEN acc ELSE cfg.term.init, err |-> eg.err]
    /\ eg' = [eg EXCEPT !.cancelled = TRUE]
    /\ UNCHANGED <<cfg, t, ch, parentDone, nest, acc, calls>>

\* ForEach: `return pipe.eg.Wait()`, and Reduce: `return initial, err`.
Wait ==
    /\ mainPc = "wait"
    /\ \A id \in DOMAIN t : ~IsWorker(id) => t[id].pc = "done"
    /\ mainPc' = "returned"
    /\ result' = [val |-> acc, err |-> eg.err]
    /\ eg' = [eg EXCEPT !.cancelled = TRUE]
    /\ UNCHANGED <<cfg, t, ch, parentDone, nest, acc, calls>>

\* All that goes on after the loop of the caller has broken.
AllYieldNoStop(id) ==
    /\ KindOf(id) = "All"
    /\ t[id].pc = "check"
    /\ LET err == IF CtxDone(id) THEN "Canceled" ELSE "nil"
           stop == CtxDone(id)
       IN  /\ acc' = Append(acc, <<t[id].elem, err>>)
           /\ calls' = Append(calls, t[id].elem)
           /\ t' = [t EXCEPT ![id] = IF stop THEN [t[id] EXCEPT !.pc = "done", !.elem = 0]
                                     ELSE [t[id] EXCEPT !.pc = "recv", !.elem = 0]]
           /\ mainPc' = IF stop THEN "returned" ELSE mainPc
           /\ result' = IF stop THEN [val |-> acc', err |-> err] ELSE result
    /\ UNCHANGED <<cfg, ch, parentDone, eg, nest>>

\* All: the iterator hands (elem, ctx.Err()) to the loop of the caller and
\* stops when the context is cancelled; otherwise it hands over (elem, nil)
\* and stops when the loop breaks (the values of cfg.term.errOn).  The pairs
\* handed over are kept in acc; result is what the caller has seen when the
\* iteration is over: the pairs and the error of the last one.
AllYield(id) ==
    /\ KindOf(id) = "All"
    /\ t[id].pc = "check"
    /\ LET err == IF CtxDone(id) THEN "Canceled" ELSE "nil"
           stop == CtxDone(id) \/ t[id].elem \in cfg.term.errOn
       IN  /\ acc' = Append(acc, <<t[id].elem, err>>)
           /\ calls' = Append(calls, t[id].elem)
           /\ t' = [t EXCEPT ![id] = IF stop THEN [t[id] EXCEPT !.pc = "done", !.elem = 0]
                                     ELSE [t[id] EXCEPT !.pc = "recv", !.elem = 0]]
           /\ mainPc' = IF stop THEN "returned" ELSE mainPc
           /\ result' = IF stop THEN [val |-> acc', err |-> err] ELSE result
    /\ UNCHANGED <<cfg, ch, parentDone, eg, nest>>

\* All: `for elem := range pipe.in` ends, the iterator returns.
AllEnd(id) ==
    /\ KindOf(id) = "All"
    /\ t[id].pc = "recv"
    /\ ch[InCh(id)].buf = <<>>
    /\ ch[InCh(id)].closed
    /\ t' = [t EXCEPT ![id].pc = "done"]
    /\ mainPc' = "returned"
    /\ result' = [val |-> acc, err |-> "nil"]
    /\ UNCHANGED <<cfg, ch, parentDone, eg, nest, acc, calls>>

\* The caller cancels the context it gave to the source.
Cancel ==
    /\ cfg.callerCancels
    /\ ~parentDone
    /\ mainPc = "wait"
    /\ parentDone' = TRUE
    /\ UNCHANGED <<cfg, t, ch, eg, nest, acc, calls, mainPc, result>>

\* ------------------------------------------------------- the pipelines run
Cb(fn, keep, errOn, cancelOn) ==
    [fn |-> fn, keep |-> keep, errOn |-> errOn, cancelOn |-> cancelOn, err |-> "errTest"]

St(kind, cb, size, num, ops) ==
    [kind |-> kind, cb |-> cb, size |-> size, num |-> num, ops |-> ops]

Src(kind, items, errAfter, ops) ==
    [kind |-> kind, items |-> items, errAfter |-> errAfter, err |-> "errSeq", ops |-> ops,
     loop |-> FALSE]

\* The source over a sequence that never ends: `for { yield(v) }`.
Unending(src) == [src EXCEPT !.loop = TRUE]

Collect == [kind |-> "Collect", fold |-> "append", errOn |-> {}, err |-> "nil", init |-> <<>>]
Reduce(errOn) == [kind |-> "Reduce", fold |-> "count", errOn |-> errOn, err |-> "errAccum", init |-> 0]
ForEach(errOn) == [kind |-> "ForEach", fold |-> "none", errOn |-> errOn, err |-> "errAccum", init |-> 0]

\* `for v, err := range All(stream)` whose body breaks on the values of breakOn.
All(breakOn) == [kind |-> "All", fold |-> "none", errOn |-> breakOn, err |-> "nil", init |-> <<>>]

\* Reduce with the accumulator of ExampleReduce, from the initial value r0.
ReduceConcat(r0) == [kind |-> "Reduce", fold |-> "concat", errOn |-> {}, err |-> "errAccum", init |-> r0]

Pipeline(src, stages, term, pre, caller) ==
    [src |-> src, stages |-> stages, term |-> term,
     preCancelled |-> pre, callerCancels |-> caller]

MapSt(fs, errOn, cancelOn) == St("Map", Cb(fs, "all", errOn, cancelOn), 0, 0, <<>>)
FilterSt(p, errOn) == St("Filter", Cb(<<>>, p, errOn, {}), 0, 0, <<>>)
FilterMapSt(fs, p, errOn) == St("FilterMap", Cb(fs, p, errOn, {}), 0, 0, <<>>)
BatchSt(k) == St("Batch", Cb(<<>>, "all", {}, {}), k, 0, <<>>)
UnBatchSt == St("UnBatch", Cb(<<>>, "all", {}, {}), 0, 0, <<>>)

Inputs == SeqsUpTo(Vals, MaxLen)
Fns == {"inc", "dbl"}
Preds == {"even", "all", "none"}
Sizes == 1..MaxBatch
OneOf == {{v} : v \in Vals}

ParMapSt(n, fs, errOn) == St("ParMap", Cb(fs, "all", errOn, {}), 0, n, <<>>)
ParFilterSt(n, p, errOn) == St("ParFilter", Cb(<<>>, p, errOn, {}), 0, n, <<>>)
ParFilterMapSt(n, fs, p, errOn) == St("ParFilterMap", Cb(fs, p, errOn, {}), 0, n, <<>>)

\* testFn of TestUnitPipeline: Map, FilterMap, Batch, UnBatch, Collect.
TestFn(errOn, cancelOn, k) ==
    <<MapSt(<<"id">>, errOn, cancelOn), FilterMapSt(<<"id">>, "all", {}), BatchSt(k), UnBatchSt>>

\* A pipeline every specification runs: an error-free iterator behind a
\* buffered channel (WithBuffer(1)), one Map, and a caller who may cancel.
CommonConfigs ==
    {Pipeline(Src("FromSeq2", s, -1, <<1>>), <<MapSt(<<"inc">>, {}, {})>>, Collect, FALSE, TRUE) :
        s \in Inputs}

\* Error-free callbacks over a slice, through every sequential stage; the
\* caller may cancel at any moment.
CleanShapes ==
    {<<MapSt(<<f>>, {}, {}), MapSt(<<g>>, {}, {})>> : f \in Fns, g \in Fns}
    \cup {<<MapSt(<<f, g>>, {}, {})>> : f \in Fns, g \in Fns}
    \cup {<<FilterSt(p, {})>> : p \in Preds}
    \cup {<<FilterMapSt(<<"inc">>, "even", {})>>}
    \cup {<<BatchSt(k)>> : k \in Sizes}
    \cup {<<BatchSt(k), UnBatchSt>> : k \in Sizes}
    \cup {TestFn({}, {}, MaxBatch)}

CleanConfigs ==
    {Pipeline(Src("FromSlice", s, -1, <<>>), sh, Collect, FALSE, TRUE) :
        s \in Inputs, sh \in CleanShapes}

\* Error-free callbacks in parallel stages.
ParShapes ==
    {<<ParMapSt(n, <<"inc">>, {})>> : n \in 1..MaxWorkers}
    \cup {<<ParFilterSt(MaxWorkers, "even", {})>>}

ParConfigs ==
    {Pipeline(Src("FromSlice", s, -1, <<>>), sh, Collect, FALSE, FALSE) :
        s \in Inputs, sh \in ParShapes}

\* A callback of one stage returns an error on one value.
StepErrorShapes ==
    {TestFn(e, {}, 1) : e \in OneOf}
    \cup {<<MapSt(<<"inc">>, e, {})>> : e \in OneOf}
    \cup {<<FilterSt("even", e)>> : e \in OneOf}
    \cup {<<MapSt(<<"id">>, {}, {}), FilterMapSt(<<"inc">>, "even", e)>> : e \in OneOf}

StepErrorConfigs ==
    {Pipeline(Src("FromSlice", s, -1, <<>>), sh, term, FALSE, FALSE) :
        s \in Inputs, sh \in StepErrorShapes, term \in {Collect, Reduce({}), ForEach({})}}

\* The sequence of the source signals an error after k elements.
SourceErrorConfigs ==
    UNION {{Pipeline(Src(kind, s, k, <<>>), <<MapSt(<<"inc">>, {}, {}), BatchSt(MaxBatch)>>,
                     Collect, FALSE, FALSE) :
                kind \in {"FromIter", "FromSeq2"}, k \in 0..Len(s)}
           \cup {Pipeline(Src(kind, s, k, <<>>), <<MapSt(<<"inc">>, {}, {})>>,
                          Collect, FALSE, caller) :
                kind \in {"FromIter", "FromSeq2"}, k \in 0..Len(s), caller \in BOOLEAN} :
           s \in Inputs}

\* The accumulator of Reduce or the callback of ForEach fails on one value.
AccumErrorConfigs ==
    {Pipeline(Src("FromSlice", s, -1, <<>>), <<MapSt(<<"id">>, {}, {})>>, term, FALSE, FALSE) :
        s \in Inputs,
        term \in {Reduce(e) : e \in OneOf} \cup {ForEach(e) : e \in OneOf}}

\* The caller cancels while Reduce counts.
CallerCancelConfigs ==
    {Pipeline(Src("FromSlice", s, -1, <<>>), <<MapSt(<<"inc">>, {}, {})>>, Reduce({}), FALSE, TRUE) :
        s \in Inputs}

\* Several tasks fail in one run: the sequence of the source signals an
\* error, the mapper fails on 2, the callback of the terminal fails on 1, and
\* the caller may cancel.
MixedErrorConfigs ==
    {Pipeline(Src("FromIter", s, k, <<>>), <<MapSt(<<"id">>, {2}, {})>>, term, FALSE, TRUE) :
        s \in {<<1, 2>>, <<2, 1>>}, k \in 1..2, term \in {Reduce({1}), ForEach({1})}}

FailConfigs ==
    StepErrorConfigs \cup SourceErrorConfigs \cup AccumErrorConfigs \cup CallerCancelConfigs
    \cup MixedErrorConfigs

\* The context is cancelled before the pipeline is built.
PreCancelledShapes ==
    {TestFn({}, {}, k) : k \in Sizes}
    \cup {<<>>, <<MapSt(<<"inc">>, {}, {})>>, <<FilterSt("even", {})>>, <<FilterSt("none", {})>>}
    \cup {<<BatchSt(k)>> : k \in Sizes}

PreCancelledConfigs ==
    {Pipeline(Src(kind, s, -1, <<>>), sh, Collect, TRUE, FALSE) :
        kind \in {"FromSlice"}, s \in Inputs, sh \in PreCancelledShapes}

\* "context is cancelled" of TestUnitPipeline: the mapper calls cancel().
CancellingConfigs ==
    {Pipeline(Src("FromIter", s, -1, <<>>), TestFn({}, {2}, k), Collect, FALSE, FALSE) :
        s \in Inputs, k \in Sizes}

\* The sequences of the longest length on which the failing callbacks fail at
\* the first item and at the last one.
LiveInputs == {[i \in 1..MaxLen |-> IF i = n THEN 2 ELSE 1] : n \in {1, MaxLen}}

\* Reduce and Collect right behind the source and behind a Map that changes
\* nothing: counting, concatenating from two initial values, collecting.
ReduceConfigs ==
    {Pipeline(Src("FromSlice", s, -1, <<>>), sh, term, FALSE, TRUE) :
        s \in Inputs, sh \in {<<>>, <<MapSt(<<"id">>, {}, {})>>},
        term \in {Collect, Reduce({}), ReduceConcat(0), ReduceConcat(1)}}

\* The options a constructor is given: none, or WithBuffer(n).
Ops == {<<>>} \cup {<<n>> : n \in 1..MaxCap}

\* The stages of sh, stage i built with the options caps[i + 1].
WithCaps(sh, caps) == [i \in 1..Len(sh) |-> [sh[i] EXCEPT !.ops = caps[i + 1]]]

\* Error-free sequential pipelines under every assignment of buffer
\* capacities to the source and the stages; nobody cancels.
BufShapes ==
    {<<MapSt(<<"inc">>, {}, {})>>,
     <<FilterSt("even", {})>>,
     <<BatchSt(MaxBatch), UnBatchSt>>,
     <<MapSt(<<"id">>, {}, {}), FilterMapSt(<<"inc">>, "even", {})>>}

BufConfigs ==
    UNION {{Pipeline(Src("FromSlice", s, -1, caps[1]), WithCaps(sh, caps), Collect, FALSE, FALSE) :
                s \in {x \in Inputs : Len(x) \in {0, MaxLen}}, caps \in [1..(Len(sh) + 1) -> Ops]} :
           sh \in BufShapes}

\* ForEach, Reduce and Collect behind a Map that changes nothing, with a
\* callback or accumulator that fails on one value or never, and a caller who
\* may cancel at any moment or never.
DrainConfigs ==
    {Pipeline(Src("FromSlice", s, -1, <<>>), <<MapSt(<<"id">>, {}, {})>>, term, FALSE, TRUE) :
        s \in Inputs,
        term \in {Collect, Reduce({}), ForEach({})}
                 \cup {Reduce(e) : e \in OneOf} \cup {ForEach(e) : e \in OneOf}}

\* A worker's callback fails on one value: a parallel stage alone, behind a
\* Map and in front of one; the caller may cancel at any moment or never.
ParFailShapes ==
    {<<ParMapSt(n, <<"inc">>, {2})>> : n \in 1..MaxWorkers}
    \cup {<<ParFilterMapSt(MaxWorkers, <<"id">>, p, {2})>> : p \in {"all", "none"}}
    \cup {<<ParFilterSt(MaxWorkers, "even", {1})>>}

ParFailChains ==
    {<<MapSt(<<"id">>, {}, {}), ParMapSt(MaxWorkers, <<"inc">>, {2})>>,
     <<ParMapSt(MaxWorkers, <<"id">>, {2}), MapSt(<<"inc">>, {}, {})>>}

ParFailConfigs ==
    {Pipeline(Src("FromSlice", s, -1, <<>>), sh, Collect, FALSE, TRUE) :
        s \in {x \in Inputs : Len(x) \in {0, MaxLen}}, sh \in ParFailShapes}
    \cup {Pipeline(Src("FromSlice", s, -1, <<>>), sh, Collect, FALSE, TRUE) :
        s \in LiveInputs, sh \in ParFailChains}

\* A sequence that never ends in front of stages that let nothing through:
\* a parallel stage whose callback fails on one value, a Filter.
UnendingConfigs ==
    {Pipeline(Unending(Src("FromIter", s, -1, <<>>)), sh, Collect, FALSE, caller) :
        s \in LiveInputs,
        sh \in {<<ParFilterMapSt(MaxWorkers, <<"id">>, "none", {2})>>, <<FilterSt("none", {})>>},
        caller \in BOOLEAN}

\* The pipelines whose runs are followed to their end: a failing callback in
\* a parallel stage, a failing mapper in front of a Batch, a caller who may
\* cancel, and the sequences that never end.
LiveShapes ==
    {<<ParFilterMapSt(MaxWorkers, <<"id">>, "all", {2})>>,
     <<MapSt(<<"inc">>, {2}, {}), BatchSt(MaxBatch)>>}

LiveConfigs ==
    {Pipeline(Src("FromSlice", s, -1, <<>>), sh, Collect, FALSE, caller) :
        s \in LiveInputs, sh \in LiveShapes, caller \in BOOLEAN}
    \cup UnendingConfigs

\* Pipelines read through All: error-free ones whose caller may cancel and
\* whose loop may break, a failing mapper, a context cancelled beforehand,
\* and the loop that breaks under a context nobody cancels ("stop early").
AllConfigs ==
    {Pipeline(Src(kind, s, -1, <<>>), <<>>, All(b), FALSE, TRUE) :
        kind \in {"FromSlice"}, s \in Inputs, b \in {{}, {2}}}
    \cup {Pipeline(Src("FromSlice", s, -1, <<>>), <<MapSt(<<"id">>, e, {})>>, All({}), FALSE, caller) :
        s \in Inputs, e \in {{}, {2}}, caller \in BOOLEAN}
    \cup {Pipeline(Src("FromSlice", s, -1, <<>>), <<>>, All({}), TRUE, FALSE) : s \in Inputs}
    \cup {Pipeline(Src("FromSlice", s, -1, <<>>), sh, All({2}), FALSE, FALSE) :
        s \in Inputs, sh \in {<<>>, <<MapSt(<<"id">>, {}, {})>>}}

\* The state once the pipeline c is built and the terminal consumer called.
Built(c) ==
    LET n == Len(c.stages)
        par(i) == i \in 1..n /\ c.stages[i].kind \in {"ParMap", "ParFilterMap", "ParFilter"}
        ids == {10 * i : i \in 0..(n + 1)}
               \cup UNION {{10 * i + w : w \in 1..c.stages[i].num} : i \in {j \in 1..n : par(j)}}
    IN  /\ cfg = c
        /\ t = [id \in ids |->
                 IF id = 0 THEN [Blank EXCEPT !.pc = "seq"]
                 ELSE IF id % 10 = 0 /\ par(id \div 10) THEN [Blank EXCEPT !.pc = "wait"]
                 ELSE Blank]
        /\ ch = [i \in 0..n |-> [buf |-> <<>>, closed |-> FALSE]]
        /\ parentDone = c.preCancelled
        /\ eg = [err |-> "nil", cancelled |-> FALSE]
        /\ nest = [i \in 1..n |-> [err |-> "nil", cancelled |-> FALSE]]
        /\ acc = c.term.init
        /\ calls = <<>>
        /\ mainPc = "wait"
        /\ result = [val |-> c.term.init, err |-> "nil"]

Init == \E c \in CleanConfigs \cup ReduceConfigs \cup CommonConfigs : Built(c)

InitPar == \E c \in ParConfigs \cup CommonConfigs : Built(c)

InitFail == \E c \in FailConfigs \cup CommonConfigs : Built(c)

InitPre == \E c \in PreCancelledConfigs \cup CommonConfigs : Built(c)

InitCancelling == \E c \in CancellingConfigs \cup CommonConfigs : Built(c)

InitParFail == \E c \in ParFailConfigs \cup UnendingConfigs \cup CommonConfigs : Built(c)

InitAll == \E c \in AllConfigs \cup CommonConfigs : Built(c)

\* TestUnitBuffered with a second option: a Filter that is given two
\* WithBuffer options in front of an unbuffered Filter.
MultiOptConfigs ==
    {Pipeline(Src("FromSlice", s, -1, <<>>),
              <<[FilterSt("all", {}) EXCEPT !.ops = o], FilterSt("all", {})>>,
              Collect, FALSE, FALSE) :
        s \in {x \in Inputs : Len(x) = MaxCap}, o \in {<<1, MaxCap>>, <<MaxCap, 1>>}}

\* Chains of sequential stages cut short at any point: the sequence of the
\* source signals an error after k elements or never, a callback fails on one
\* value or never, and the caller may cancel at any moment.
OrderShapes ==
    {<<MapSt(<<"inc">>, e, {}), BatchSt(k), UnBatchSt>> : e \in {{}, {2}}, k \in Sizes}
    \cup {<<FilterSt("even", e)>> : e \in {{}, {1}}}
    \cup {<<FilterMapSt(<<"inc">>, "even", e)>> : e \in {{}, {1}}}
    \cup {<<BatchSt(k)>> : k \in Sizes}

OrderConfigs ==
    {Pipeline(Src("FromIter", s, k, <<>>), sh, Collect, FALSE, TRUE) :
        s \in LiveInputs \cup {[i \in 1..MaxLen |-> 1 + (i % 2)]},
        k \in {-1} \cup 1..MaxLen, sh \in OrderShapes}

InitOrder == \E c \in OrderConfigs \cup CommonConfigs : Built(c)

InitBuf == \E c \in BufConfigs \cup MultiOptConfigs \cup CommonConfigs : Built(c)

InitDrain == \E c \in DrainConfigs \cup CommonConfigs : Built(c)

InitLive == \E c \in LiveConfigs \cup CommonConfigs : Built(c)

Next ==
    \/ \E id \in DOMAIN t : SeqStep(id)
    \/ \E id \in DOMAIN t : Seq2Step(id)
    \/ \E id \in DOMAIN t : \E r \in Receivers(OutCh(id)) : Handoff(id, r)
    \/ \E id \in DOMAIN t : Enqueue(id)
    \/ \E id \in DOMAIN t : PushCancelled(id)
    \/ \E id \in DOMAIN t : Dequeue(id)
    \/ \E id \in DOMAIN t : RecvClosed(id)
    \/ \E id \in DOMAIN t : Call(id)
    \/ \E id \in DOMAIN t : Close(id)
    \/ \E id \in DOMAIN t : TaskReturn(id)
    \/ \E id \in DOMAIN t : ForEachCheck(id)
    \/ \E id \in DOMAIN t : ForEachCall(id)
    \/ Wait
    \/ Cancel

NextPar ==
    \/ Next
    \/ \E id \in DOMAIN t : SupervisorWait(id)

NextAll ==
    \/ Next
    \/ \E id \in DOMAIN t : AllYield(id)
    \/ \E id \in DOMAIN t : AllEnd(id)

\* Error-free sequential pipelines.
Spec == Init /\ [][Next]_vars

\* Error-free pipelines with a parallel stage.
SpecPar == InitPar /\ [][NextPar]_vars

\* Pipelines in which a callback, the source or the accumulator fails.
SpecFail == InitFail /\ [][Next]_vars

\* Pipelines built on a context that is already cancelled.
SpecPre == InitPre /\ [][Next]_vars

\* Pipelines whose mapper cancels the caller's context.
SpecCancelling == InitCancelling /\ [][Next]_vars

\* Error-free sequential pipelines with buffered channels.
SpecBuf == InitBuf /\ [][Next]_vars

\* Pipelines whose terminal callback may fail while the caller may cancel.
SpecDrain == InitDrain /\ [][Next]_vars

\* Sequential pipelines cut short by an error of the source, an error of a
\* callback or the caller's cancellation.
SpecOrder == InitOrder /\ [][Next]_vars

\* Pipelines the caller ranges over with All.
SpecAll == InitAll /\ [][NextAll]_vars

\* Pipelines with a parallel stage whose workers fail or are cancelled, and
\* sources that never end.
SpecParFail == InitParFail /\ [][NextPar]_vars

\* Every goroutine a pipeline of the bounds can have.
TaskIds == {10 * i + w : i \in 0..3, w \in 0..MaxWorkers}

\* One step of the goroutine id.
TaskStep(id) ==
    /\ id \in DOMAIN t
    /\ \/ SeqStep(id)
       \/ Seq2Step(id)
       \/ \E r \in Receivers(OutCh(id)) : Handoff(id, r)
       \/ Enqueue(id)
       \/ PushCancelled(id)
       \/ Dequeue(id)
       \/ RecvClosed(id)
       \/ Call(id)
       \/ Close(id)
       \/ TaskReturn(id)
       \/ ForEachCheck(id)
       \/ ForEachCall(id)
       \/ SupervisorWait(id)

\* The Go scheduler runs every goroutine that can run, and the caller leaves
\* eg.Wait once it can.  select picks among the ready cases at random, so a
\* push that finds ctx.Done() ready again and again takes it in the end.
Fairness ==
    /\ \A id \in TaskIds : WF_vars(TaskStep(id))
    /\ SF_vars(\E id \in DOMAIN t : PushCancelled(id))
    /\ WF_vars(Wait)

\* Failing, cancelled and unending pipelines under a fair scheduler.
SpecLive == InitLive /\ [][NextPar]_vars /\ Fairness

\* ------------------------------------------------------------- properties
Returned == mainPc = "returned"

Kinds(c) == [i \in 1..Len(c.stages) |-> c.stages[i].kind]

\* No callback, sequence or accumulator of the pipeline fails or cancels.
ErrorFree(c) ==
    /\ c.src.errAfter = -1
    /\ c.term.errOn = {}
    /\ \A i \in 1..Len(c.stages) : c.stages[i].cb.errOn = {} /\ c.stages[i].cb.cancelOn = {}

\* The terminal consumer returned, nothing failed and nobody cancelled.
CleanReturn == Returned /\ ~parentDone /\ ErrorFree(cfg)

MapSeq(f, g, s) == [i \in 1..Len(s) |-> ApplyFn(g, ApplyFn(f, s[i]))]

RECURSIVE FilterSeq(_, _)
FilterSeq(p, s) ==
    IF s = <<>> THEN <<>>
    ELSE IF Keep(p, Head(s)) THEN <<Head(s)>> \o FilterSeq(p, Tail(s))
    ELSE FilterSeq(p, Tail(s))

RECURSIVE Flatten(_)
Flatten(bs) == IF bs = <<>> THEN <<>> ELSE Head(bs) \o Flatten(Tail(bs))

CeilDiv(n, k) == (n + k - 1) \div k

\* C1: Collect(Map(Map(FromSlice(S), f), g)) returns nil and [g(f(x)) : x in S]
\* in input order, the same as Collect(Map(FromSlice(S), g.f)), whenever no
\* callback fails and the token is never cancelled.
C1_MapComposition ==
    /\ (CleanReturn /\ cfg.src.kind = "FromSlice" /\ Kinds(cfg) = <<"Map", "Map">>) =>
           result = [val |-> MapSeq(cfg.stages[1].cb.fn[1], cfg.stages[2].cb.fn[1], cfg.src.items),
                     err |-> "nil"]
    /\ (CleanReturn /\ cfg.src.kind = "FromSlice" /\ Kinds(cfg) = <<"Map">>
            /\ Len(cfg.stages[1].cb.fn) = 2) =>
           result = [val |-> MapSeq(cfg.stages[1].cb.fn[1], cfg.stages[1].cb.fn[2], cfg.src.items),
                     err |-> "nil"]

\* Two different mappers ran over a slice of different values, uncancelled.
C1_Witness ==
    /\ CleanReturn
    /\ Kinds(cfg) = <<"Map", "Map">>
    /\ cfg.stages[1].cb.fn # cfg.stages[2].cb.fn
    /\ Len(cfg.src.items) >= 2
    /\ cfg.src.items[1] # cfg.src.items[2]
    /\ Len(result.val) = Len(cfg.src.items)

\* C2: Collect(Filter(FromSlice(S), p)) returns nil and the sub-sequence of S
\* that satisfies p, in the original order, whenever p never fails and the
\* token is never cancelled.
C2_FilterSubsequence ==
    (CleanReturn /\ cfg.src.kind = "FromSlice" /\ Kinds(cfg) = <<"Filter">>) =>
        result = [val |-> FilterSeq(cfg.stages[1].cb.keep, cfg.src.items), err |-> "nil"]

\* A filter kept some elements of a slice and excluded others.
C2_Witness ==
    /\ CleanReturn
    /\ Kinds(cfg) = <<"Filter">>
    /\ result.val # <<>>
    /\ Len(result.val) < Len(cfg.src.items)

\* C3: without error or cancellation Batch(FromSlice(S), k) emits
\* ceil(len(S)/k) batches, all of length k but the last, which has length
\* len(S) mod k when that is not zero; no batch for an empty S; the batches
\* are S cut in order.
C3_BatchShape ==
    (CleanReturn /\ cfg.src.kind = "FromSlice" /\ Kinds(cfg) = <<"Batch">>) =>
        LET k == cfg.stages[1].size
            n == Len(cfg.src.items)
            bs == result.val
        IN  /\ result.err = "nil"
            /\ Len(bs) = CeilDiv(n, k)
            /\ \A i \in 1..(Len(bs) - 1) : Len(bs[i]) = k
            /\ Len(bs) > 0 => Len(bs[Len(bs)]) = (IF n % k # 0 THEN n % k ELSE k)
            /\ n = 0 => bs = <<>>
            /\ Flatten(bs) = cfg.src.items

\* A slice that does not divide into whole batches was batched: a full batch
\* and then a partial one.
C3_Witness ==
    /\ CleanReturn
    /\ Kinds(cfg) = <<"Batch">>
    /\ Len(cfg.src.items) % cfg.stages[1].size # 0
    /\ Len(result.val) >= 2

\* C4: without error or cancellation Collect(UnBatch(Batch(FromSlice(S), k)))
\* returns nil and S itself, element for element.
C4_BatchRoundTrip ==
    (CleanReturn /\ cfg.src.kind = "FromSlice"
        /\ Kinds(cfg) \in {<<"Batch", "UnBatch">>, <<"Map", "FilterMap", "Batch", "UnBatch">>}) =>
        result = [val |-> cfg.src.items, err |-> "nil"]

\* Batches of more than one element went through UnBatch.
C4_Witness ==
    /\ CleanReturn
    /\ Kinds(cfg) = <<"Batch", "UnBatch">>
    /\ cfg.stages[1].size >= 2
    /\ Len(cfg.src.items) > cfg.stages[1].size
    /\ result.val = cfg.src.items

\* C5: with error-free f and no cancellation Collect(ParMap(FromSlice(S), n, f))
\* comes to an end under every interleaving of the n workers, with nil and a
\* result that is, as a multiset, {f(x) : x in S}.
C5_ParMapMultiset ==
    (~parentDone /\ ErrorFree(cfg) /\ cfg.src.kind = "FromSlice" /\ Kinds(cfg) = <<"ParMap">>) =>
        /\ ~Returned => ENABLED NextPar
        /\ Returned =>
            /\ result.err = "nil"
            /\ SeqToBag(result.val) =
                 SeqToBag([i \in 1..Len(cfg.src.items) |->
                              Compose(cfg.stages[1].cb.fn, cfg.src.items[i])])

\* Two workers mapped a slice holding a value twice, and the result came out
\* in another order than the input.
C5_Witness ==
    /\ CleanReturn
    /\ Kinds(cfg) = <<"ParMap">>
    /\ cfg.stages[1].num >= 2
    /\ \E i, j \in 1..Len(cfg.src.items) : i # j /\ cfg.src.items[i] = cfg.src.items[j]
    /\ result.val # [i \in 1..Len(cfg.src.items) |->
                        Compose(cfg.stages[1].cb.fn, cfg.src.items[i])]

\* Some callback of a Map, Filter or FilterMap stage has returned its error.
StepFailed == \E id \in DOMAIN t : t[id].ret = "errTest"

\* Some element of the slice makes the callback of stage i fail (the stages
\* before i hand the values on unchanged).
FailsOnInput(i) == \E j \in 1..Len(cfg.src.items) : cfg.src.items[j] \in cfg.stages[i].cb.errOn

\* C6: when the caller does not cancel and a callback of Map, Filter or
\* FilterMap returns error e, ForEach, Reduce and Collect return exactly e,
\* whatever the interleaving and however many items went downstream.
C6_StepErrorReturned ==
    (Returned /\ ~parentDone /\ cfg.src.errAfter = -1 /\ cfg.term.errOn = {}) =>
        /\ StepFailed => result.err = "errTest"
        /\ \A i \in 1..NumStages :
              (FailsOnInput(i) /\ Kinds(cfg)[i] \in {"Map", "Filter", "FilterMap"}
                 /\ \A h \in 1..(i - 1) : cfg.stages[h].cb.fn = <<"id">> /\ cfg.stages[h].cb.errOn = {})
              => result.err = "errTest"

\* A mapper failed after items had reached the terminal callback, another
\* task came back with the cancellation error, and the caller got e.
C6_Witness ==
    /\ Returned
    /\ ~parentDone
    /\ cfg.term.kind = "Reduce"
    /\ StepFailed
    /\ calls # <<>>
    /\ \E id \in DOMAIN t : t[id].ret = "Canceled"
    /\ result.err = "errTest"

\* C8 as stated: with a non-nil error Reduce returns its initial value and
\* Collect an empty sequence.
C8_PartialDiscarded ==
    (Returned /\ result.err # "nil") => result.val = cfg.term.init

\* C8 as amended: with a non-nil error Reduce and Collect return the
\* accumulator as it stands: Collect the items its callback was invoked on, in
\* order, Reduce the count of the items its accumulator accepted.
C8_PartialReturned ==
    (Returned /\ result.err # "nil") =>
        CASE cfg.term.kind = "Collect" -> result.val = calls
          [] cfg.term.kind = "Reduce" /\ cfg.term.fold = "count" ->
                result.val = Len(calls) - (IF t[Tid(TermStage)].ret = "errAccum" THEN 1 ELSE 0)
          [] OTHER -> TRUE

\* Collect came back with an error and the items collected before it.
C8_Witness ==
    /\ Returned
    /\ result.err # "nil"
    /\ cfg.term.kind = "Collect"
    /\ result.val # <<>>

\* C10: a source whose sequence signals e after k items has pulled exactly k
\* items, pushes nothing more, closes its channel and returns e; the terminal
\* consumer returns e when the caller has not cancelled.
C10_SourceError ==
    (cfg.src.errAfter >= 0 /\ ErrorFree([cfg EXCEPT !.src.errAfter = -1])) =>
        /\ t[0].ret = "errSeq" =>
              /\ t[0].pc \in {"close", "ret", "done"}
              /\ t[0].idx = cfg.src.errAfter + 1
              /\ t[0].pc # "close" => ch[0].closed
        /\ (Returned /\ ~parentDone) => (t[0].ret = "errSeq" /\ result.err = "errSeq")

\* An iterator yielded items and then an error pair; Collect returned it.
C10_Witness ==
    /\ Returned
    /\ ~parentDone
    /\ cfg.src.kind = "FromSeq2"
    /\ cfg.src.errAfter >= 1
    /\ calls # <<>>
    /\ result.err = "errSeq"

\* C7 as stated: on a context cancelled before anything is read, Collect
\* returns an empty result and the cancellation error, for every source and
\* every chain of stages.
C7_PreCancelled ==
    (Returned /\ cfg.preCancelled) => result = [val |-> <<>>, err |-> "Canceled"]

\* C9: when the mapper of FromIter -> Map -> FilterMap -> Batch -> UnBatch ->
\* Collect cancels the token on some item, Collect returns the cancellation
\* error under every outcome of the races in push; cancelling on the first
\* item gives an empty result.
C9_CancelInsideMap ==
    (Returned /\ cfg.src.kind = "FromIter"
        /\ Kinds(cfg) = <<"Map", "FilterMap", "Batch", "UnBatch">>) =>
        /\ (\E j \in 1..Len(cfg.src.items) : cfg.src.items[j] \in cfg.stages[1].cb.cancelOn)
              => (parentDone /\ result.err = "Canceled")
        /\ (cfg.src.items # <<>> /\ cfg.src.items[1] \in cfg.stages[1].cb.cancelOn)
              => result.val = <<>>

\* The mapper cancelled on a later item, every push of the items before it
\* won its race, and Collect returned them with the cancellation error.
C9_Witness ==
    /\ Returned
    /\ parentDone
    /\ Kinds(cfg) = <<"Map", "FilterMap", "Batch", "UnBatch">>
    /\ cfg.stages[1].cb.cancelOn # {}
    /\ calls # <<>>
    /\ result.err = "Canceled"

\* The token every stage shares is cancelled: by the caller, or by the
\* errgroup of the pipeline after a task returned an error.
TokenCancelled == parentDone \/ eg.cancelled

\* Every goroutine of the pipeline has left its function.
AllTerminated == \A id \in DOMAIN t : t[id].pc = "done"

\* C11: once the shared token is cancelled, by the caller or by a failure,
\* every task (blocked in a send, blocked in a receive or running) terminates
\* and the terminal consumer returns; no state after the cancellation is stuck.
C11_CancelledTerminates == TokenCancelled ~> (Returned /\ AllTerminated)

\* The caller cancelled a pipeline whose source never ends; the source lost
\* a push to the cancellation and everything came to an end.
C11_Witness ==
    /\ Returned
    /\ AllTerminated
    /\ cfg.src.loop
    /\ parentDone
    /\ t[0].ret = "Canceled"
    /\ eg.err = "Canceled"

\* C12: when ForEach, Reduce or Collect returns, the source task, every stage
\* task, every supervising task with each of its workers and the drain task
\* have left their functions, whether with nil, an error or the cancellation.
C12_ReturnAfterAllTasks == Returned => AllTerminated

\* Collect returned the error of one worker after a sibling worker had come
\* back with the cancellation error of the nested group.
C12_Witness ==
    /\ Returned
    /\ result.err = "errTest"
    /\ \E v, w \in DOMAIN t :
          /\ IsWorker(v) /\ IsWorker(w)
          /\ t[v].ret = "errTest" /\ t[w].ret = "Canceled"
          /\ t[v].pc = "done" /\ t[w].pc = "done"

\* The goroutines that push into channel c.
Senders(c) == IF IsPar(c) THEN Workers(c) ELSE {Tid(c)}

\* C13: a channel is closed by the task that made it and by no other, once;
\* no goroutine is in a send on a closed channel or reaches one later; the
\* output of a parallel stage is closed only when all its workers have
\* returned, on success, worker error and cancellation alike.
C13_CloseOnce ==
    /\ \A id \in DOMAIN t : t[id].pc = "close" => (HasOut(id) /\ ~ch[OutCh(id)].closed)
    /\ \A c \in DOMAIN ch : ch[c].closed =>
          /\ t[Tid(c)].pc \in {"ret", "done"}
          /\ \A id \in Senders(c) : t[id].pc \in {"ret", "done"}
          /\ \A w \in Workers(c) : t[w].pc = "done"

\* The output of a parallel stage is closed after one worker failed and a
\* sibling lost a push to the cancellation of the nested group.
C13_Witness ==
    /\ IsPar(1)
    /\ ch[1].closed
    /\ \E v, w \in Workers(1) : t[v].ret = "errTest" /\ t[w].ret = "Canceled"

\* C14 as stated: once the shared token is cancelled, every push that is
\* blocked or starts later returns the token's error and never nil, whatever
\* the capacity of the channel, also when it has room or a receiver waits.
C14_PushAfterCancelFails ==
    [][\A id \in DOMAIN t :
          (TokenCancelled /\ Pushing(id) /\ t'[id] # t[id]) => t'[id].ret = "Canceled"]_vars

\* C15 as stated: when the stream All reads ends because the token was
\* cancelled, by the caller or after an upstream failure, the last pair All
\* hands over carries the cancellation error; the iteration never ends with
\* (value, nil) pairs only or with no pair at all.
C15_AllSurfacesCancellation ==
    (Returned /\ cfg.term.kind = "All" /\ cfg.term.errOn = {}
        /\ \E id \in DOMAIN t : t[id].ret # "nil") =>
        /\ result.val # <<>>
        /\ result.val[Len(result.val)][2] = "Canceled"

\* a(...a(a(r0, x1), x2)..., xn) for the accumulator called name.
RECURSIVE LeftFold(_, _, _)
LeftFold(name, r0, s) ==
    IF s = <<>> THEN r0
    ELSE Fold(name, LeftFold(name, r0, SubSeq(s, 1, Len(s) - 1)), s[Len(s)])

\* C16: without error or cancellation Reduce over the stream of S returns nil
\* and the left fold of S from r0 in stream order, its accumulator having been
\* invoked once per element (counting gives len(S), concatenating the digits
\* of S in order); Collect returns S itself.
C16_ReduceLeftFold ==
    (CleanReturn /\ cfg.src.kind = "FromSlice"
        /\ (Kinds(cfg) = <<>> \/ (Kinds(cfg) = <<"Map">> /\ cfg.stages[1].cb.fn = <<"id">>))) =>
        /\ calls = cfg.src.items
        /\ cfg.term.kind = "Reduce" =>
              result = [val |-> LeftFold(cfg.term.fold, cfg.term.init, cfg.src.items), err |-> "nil"]
        /\ (cfg.term.kind = "Reduce" /\ cfg.term.fold = "count") =>
              result.val = Len(cfg.src.items)
        /\ cfg.term.kind = "Collect" => result = [val |-> cfg.src.items, err |-> "nil"]

\* Reduce concatenated a slice of different values from a non-zero initial
\* value: the result spells the initial value and then the slice.
C16_Witness ==
    /\ CleanReturn
    /\ cfg.term.kind = "Reduce"
    /\ cfg.term.fold = "concat"
    /\ cfg.term.init = 1
    /\ Len(cfg.src.items) = MaxLen
    /\ cfg.src.items[1] # cfg.src.items[MaxLen]
    /\ Len(calls) = MaxLen
    /\ result.val > 100

\* The callback of a worker of a parallel stage has returned its error.
WorkerFailed == \E id \in DOMAIN t : IsWorker(id) /\ t[id].ret = "errTest"

\* C17 as stated: when the caller does not cancel and the callback of a
\* worker returns e, the token of the whole pipeline gets cancelled, the
\* sibling workers and all other stages terminate, and the terminal consumer
\* returns e, not the cancellation error the siblings get.
C17_WorkerErrorReturned ==
    (WorkerFailed /\ ~cfg.callerCancels) ~>
        (TokenCancelled /\ Returned /\ AllTerminated /\ result.err = "errTest")

\* s cut into pieces of k elements, the last one shorter when k does not
\* divide len(s).
RECURSIVE Chunks(_, _)
Chunks(s, k) ==
    IF s = <<>> THEN <<>>
    ELSE IF Len(s) <= k THEN <<s>>
    ELSE <<SubSeq(s, 1, k)>> \o Chunks(SubSeq(s, k + 1, Len(s)), k)

\* What an error-free stage makes of the whole stream s when everything is
\* handed over one item at a time.
StageOutput(st, s) ==
    CASE st.kind = "Map" -> [i \in 1..Len(s) |-> Compose(st.cb.fn, s[i])]
      [] st.kind = "Filter" -> FilterSeq(st.cb.keep, s)
      [] st.kind = "FilterMap" ->
            LET kept == FilterSeq(st.cb.keep, s)
            IN  [i \in 1..Len(kept) |-> Compose(st.cb.fn, kept[i])]
      [] st.kind = "Batch" -> Chunks(s, st.size)
      [] st.kind = "UnBatch" -> Flatten(s)

RECURSIVE StreamAfter(_, _)
StreamAfter(stages, s) ==
    IF stages = <<>> THEN s
    ELSE StreamAfter(Tail(stages), StageOutput(Head(stages), s))

\* C18: for every slice, every chain of sequential stages and every
\* assignment of capacities to the source and the stages, an error-free,
\* uncancelled Collect returns nil and the sequence the stages make of the
\* slice item by item, which does not depend on the capacities: a buffered
\* pipeline returns what the same pipeline returns with all capacities 0.
C18_BufferingKeepsResult ==
    (CleanReturn /\ cfg.src.kind = "FromSlice") =>
        result = [val |-> StreamAfter(cfg.stages, cfg.src.items), err |-> "nil"]

\* A pipeline whose channels all have room for several items collected a
\* slice of different values through a filter that dropped some.
C18_Witness ==
    /\ CleanReturn
    /\ \A c \in DOMAIN ch : CapOf(c) = MaxCap
    /\ Kinds(cfg) = <<"Map", "FilterMap">>
    /\ Len(cfg.src.items) = MaxLen
    /\ cfg.src.items[1] # cfg.src.items[MaxLen]
    /\ result.val # <<>>

\* The drain task of ForEach.
Drain == Tid(TermStage)

\* C19: ForEach looks at the token after it received an item and before it
\* invokes the callback on it.  When the token is cancelled at that check, the
\* callback is invoked neither on that item nor on any later one and the
\* drain task returns the cancellation error; the callback is invoked only
\* on an item whose check saw the token not cancelled.
C19_CheckBeforeCallback ==
    [][KindOf(Drain) = "ForEach" =>
          /\ (t[Drain].pc = "check" /\ CtxDone(Drain) /\ t'[Drain] # t[Drain]) =>
                (t'[Drain].pc = "ret" /\ t'[Drain].ret = "Canceled" /\ calls' = calls)
          /\ t[Drain].pc \in {"ret", "done"} => (calls' = calls /\ t'[Drain].ret = t[Drain].ret)
          /\ calls' # calls => (t[Drain].pc = "call" /\ calls' = Append(calls, t[Drain].elem))
          /\ (t[Drain].pc # "call" /\ t'[Drain].pc = "call") =>
                (t[Drain].pc = "check" /\ ~CtxDone(Drain) /\ t'[Drain].elem = t[Drain].elem)]_vars

\* The caller cancelled between two items: the callback had run on the
\* first ones, the check stopped the drain with items still to come.
C19_Witness ==
    /\ KindOf(Drain) = "ForEach"
    /\ cfg.term.kind = "ForEach"
    /\ t[Drain].pc \in {"ret", "done"}
    /\ t[Drain].ret = "Canceled"
    /\ calls # <<>>
    /\ Len(calls) < Len(cfg.src.items)

\* The callback of ForEach or the accumulator of Reduce has returned its error.
DrainFailed == t[Drain].ret = "errAccum"

\* C20 as stated: when the callback of ForEach or the accumulator of Reduce
\* returns e on an element, it is invoked on no later element, the upstream
\* stages are released and terminate, and ForEach/Reduce returns exactly e
\* after all of them have finished.
C20_AccumErrorReturned ==
    /\ DrainFailed => (t[Drain].pc \in {"ret", "done"} /\ calls # <<>>
                          /\ calls[Len(calls)] \in cfg.term.errOn)
    /\ (DrainFailed /\ ~Returned) => ENABLED Next
    /\ (DrainFailed /\ Returned) => (AllTerminated /\ result.err = "errAccum")

\* C20 as amended: the callback is invoked on no element after the one it
\* failed on, the upstream stages are released and terminate, and ForEach and
\* Reduce return after all tasks have finished; they return e when the caller
\* has not cancelled, and otherwise e or the cancellation error of an
\* upstream task whose push lost to the caller's cancellation before e was
\* recorded.
C20_AccumErrorFirstWins ==
    /\ DrainFailed =>
          /\ t[Drain].pc \in {"ret", "done"}
          /\ calls # <<>>
          /\ calls[Len(calls)] \in cfg.term.errOn
          /\ \A i \in 1..(Len(calls) - 1) : calls[i] \notin cfg.term.errOn
    /\ (DrainFailed /\ ~Returned) => ENABLED Next
    /\ (DrainFailed /\ Returned) =>
          /\ AllTerminated
          /\ ~parentDone => result.err = "errAccum"
          /\ \/ result.err = "errAccum"
             \/ /\ result.err = "Canceled"
                /\ parentDone
                /\ \E id \in DOMAIN t : id # Drain /\ t[id].ret = "Canceled"

\* The accumulator of Reduce failed on a later element while the source was
\* blocked in push; the source was released by the cancellation of the group
\* and Reduce returned e.
C20_Witness ==
    /\ Returned
    /\ DrainFailed
    /\ ~parentDone
    /\ cfg.term.kind = "Reduce"
    /\ Len(calls) >= 2
    /\ t[0].ret = "Canceled"
    /\ result.err = "errAccum"

\* The task has left its function (the deferred calls have run).
Terminated(id) == t[id].pc \in {"ret", "done"}

\* C21: a source, a stage or a supervising task closes its output channel on
\* every way out (upstream exhausted, callback error, push lost to the
\* cancellation), so the channel of a terminated task is closed, and a
\* downstream task waiting to receive from it gets released.
C21_ClosedOnEveryPath ==
    /\ [](\A id \in DOMAIN t : (HasOut(id) /\ Terminated(id)) => ch[OutCh(id)].closed)
    /\ \A i \in 0..2 :
          (i \in DOMAIN ch /\ Terminated(Tid(i))) ~>
              (i \in DOMAIN ch /\ \A r \in Receivers(i) : t[r].pc # "recv")

\* A stage returned the error of its callback, the source lost its push to
\* the cancellation, both channels are closed and the drain has seen the end.
C21_Witness ==
    /\ NumStages >= 1
    /\ t[Tid(1)].ret = "errTest"
    /\ t[0].ret = "Canceled"
    /\ \A c \in DOMAIN ch : ch[c].closed
    /\ t[Tid(TermStage)].pc = "done"

\* The step in which the push of task id comes back: with the token's error
\* and the item in nobody's hands, or with nil and the item once in the
\* channel or once in the hands of one receiver.
PushOutcome(id) ==
    LET c == OutCh(id)
        item == t[id].out
        took == {r \in Receivers(c) : t'[r] # t[r]}
    IN  \/ /\ t'[id].ret = "Canceled"
           /\ t'[id] = Return(t[id], id, "Canceled")
           /\ ch' = ch
           /\ took = {}
        \/ /\ t'[id].ret = "nil"
           /\ t'[id] = AfterPush(id)
           /\ \/ /\ ch' = [ch EXCEPT ![c].buf = Append(@, item)]
                 /\ took = {}
              \/ /\ ch' = ch
                 /\ \E r \in Receivers(c) :
                       took = {r} /\ t[r].pc = "recv" /\ t'[r] = OnRecv(r, item)

\* C22: push comes back in one of two ways: nil with the item enqueued once,
\* or the token's error with the item not enqueued; never an error for an
\* item it enqueued, never nil without enqueuing; and a push that waits on a
\* full channel can come back as soon as the token is cancelled.
C22_PushTwoOutcomes ==
    /\ [](\A id \in DOMAIN t : (Pushing(id) /\ CtxDone(id)) => ENABLED PushCancelled(id))
    /\ [][\A id \in DOMAIN t : (Pushing(id) /\ t'[id] # t[id]) => PushOutcome(id)]_vars

\* The caller cancelled a pipeline with a parallel stage after items had
\* gone through: the source came back from push with the token's error.
C22_Witness ==
    /\ IsPar(1)
    /\ parentDone
    /\ ~Returned
    /\ calls # <<>>
    /\ t[0].ret = "Canceled"

\* The FilterMap that Map and Filter are said to be: Map's mapper with an
\* inclusion flag that is always true, Filter's predicate with the identity
\* as mapping.
AsFilterMap(st) ==
    IF st.kind = "Map" THEN [st EXCEPT !.kind = "FilterMap", !.cb.keep = "all"]
    ELSE [st EXCEPT !.kind = "FilterMap", !.cb.fn = <<>>]

\* What the task of a sequential stage does next in each position of its loop.
CallStep(id) ==
    IF KindOf(id) = "Map" THEN MapCall(t[id], id) ELSE FilterMapCall(t[id], id)

\* C23: a Map task and a Filter task take, in every position they reach, the
\* step FilterMap takes with the always-true flag (the identity mapping):
\* same item pushed or skipped, same error returned, same close of the output.
C23_MapFilterAsFilterMap ==
    \A i \in 1..NumStages :
        LET id == Tid(i)
            st == cfg.stages[i]
        IN  st.kind \in {"Map", "Filter", "FilterMap"} =>
              /\ \A v \in Vals : OnRecv(id, v) = MapRecv(t[id], v)
              /\ OnClosed(id) = Return(t[id], id, "nil")
              /\ t[id].pc = "push" => AfterPush(id) = [t[id] EXCEPT !.pc = "recv", !.out = 0]
              /\ t[id].pc \in {"recv", "call", "push", "close", "ret", "done"}
              /\ (t[id].pc = "call" /\ st.kind # "FilterMap") =>
                    CallStep(id) = FilterMapBody(AsFilterMap(st), t[id], id)
              /\ ChanCap(st.ops) = ChanCap(AsFilterMap(st).ops)

\* A Map whose mapper changes the element has pushed mapped values and is
\* about to run the mapper on the value it fails on.
C23_Witness ==
    /\ NumStages = 1
    /\ cfg.stages[1].kind = "Map"
    /\ cfg.stages[1].cb.fn = <<"inc">>
    /\ t[Tid(1)].pc = "call"
    /\ t[Tid(1)].elem \in cfg.stages[1].cb.errOn
    /\ calls # <<>>

\* The errors the tasks of the pipeline's group have returned so far.
ReturnedErrors == {t[id].ret : id \in {i \in DOMAIN t : ~IsWorker(i) /\ t[i].pc = "done"}} \ {"nil"}

\* C24: the group keeps the first non-nil error a task returns to it and
\* never replaces it; the terminal returns that one error, which is one of
\* the errors the tasks returned and nothing made of several.
C24_FirstErrorWins ==
    /\ [](eg.err # "nil" => eg.err \in ReturnedErrors)
    /\ [](Returned => result.err = eg.err)
    /\ [][/\ eg.err # "nil" => eg'.err = eg.err
          /\ \A id \in DOMAIN t :
                (~IsWorker(id) /\ t[id].pc = "ret" /\ t'[id].pc = "done" /\ eg.err = "nil")
                    => eg'.err = t[id].ret]_vars

\* The source, the mapper and the callback of the terminal all failed, each
\* with its own error, and the terminal returned one of them.
C24_Witness ==
    /\ Returned
    /\ NumStages = 1
    /\ t[0].ret = "errSeq"
    /\ t[Tid(1)].ret = "errTest"
    /\ t[Tid(TermStage)].ret = "errAccum"
    /\ result.err = "errAccum"

\* The options channel c was created with, and the capacity they ask for:
\* that of the last WithBuffer, 0 without any.
OpsOf(c) == IF c = 0 THEN cfg.src.ops ELSE cfg.stages[c].ops

Capacity(ops) == IF Len(ops) = 0 THEN 0 ELSE ops[Len(ops)]

\* C25: a channel never holds more items than the last WithBuffer option
\* asked for; a push into a channel with room completes on its own; a push
\* into a channel without capacity completes only in a step in which a
\* receiver of that channel takes the item.
C25_BufferCapacity ==
    /\ [](\A c \in DOMAIN ch : Len(ch[c].buf) <= Capacity(OpsOf(c)))
    /\ [](\A id \in DOMAIN t :
            (Pushing(id) /\ Len(ch[OutCh(id)].buf) < Capacity(OpsOf(OutCh(id))))
                => ENABLED Enqueue(id))
    /\ [][\A id \in DOMAIN t :
            (Pushing(id) /\ t'[id] = AfterPush(id) /\ Capacity(OpsOf(OutCh(id))) = 0)
                => /\ ch' = ch
                   /\ \E r \in Receivers(OutCh(id)) : t[r].pc = "recv" /\ t'[r] # t[r]]_vars

\* TestUnitBuffered: the Filter built with WithBuffer(1), WithBuffer(MaxCap)
\* has put its whole input of MaxCap items into its output and returned
\* before the unbuffered Filter behind it received anything.
C25_Witness ==
    /\ NumStages = 2
    /\ cfg.stages[1].ops = <<1, MaxCap>>
    /\ Len(cfg.src.items) = MaxCap
    /\ t[Tid(1)].pc = "done"
    /\ Len(ch[1].buf) = MaxCap
    /\ t[Tid(2)] = Blank
    /\ ch[2].buf = <<>>
    /\ calls = <<>>

\* The positions of s that hold a value of the set b, and the first of them
\* (Len(s) when there is none).
FirstIn(s, b) ==
    IF \E i \in 1..Len(s) : s[i] \in b
    THEN CHOOSE i \in 1..Len(s) : s[i] \in b /\ \A j \in 1..(i - 1) : s[j] \notin b
    ELSE Len(s)

\* The stream All ranges over when nothing is cut short.
AllStream == StreamAfter(cfg.stages, cfg.src.items)

\* C26: All over an uncancelled, error-free stream hands over the items of
\* the stream in order, each with a nil error; it hands over nothing after a
\* pair on which the loop broke or a pair with an error, so a loop that
\* breaks at item j has seen exactly the items 1..j.
C26_AllInOrderUntilBreak ==
    /\ [](cfg.term.kind = "All" =>
            /\ Len(acc) <= Len(AllStream)
            /\ \A i \in 1..Len(acc) : acc[i][1] = AllStream[i]
            /\ \A i \in 1..(Len(acc) - 1) : acc[i][2] = "nil" /\ acc[i][1] \notin cfg.term.errOn
            /\ (~TokenCancelled /\ \A id \in DOMAIN t : t[id].ret = "nil") =>
                    \A i \in 1..Len(acc) : acc[i][2] = "nil"
            /\ (Returned /\ ~TokenCancelled /\ \A id \in DOMAIN t : t[id].ret = "nil") =>
                    acc = [i \in 1..FirstIn(AllStream, cfg.term.errOn) |-> <<AllStream[i], "nil">>])
    /\ [][(cfg.term.kind = "All" /\ Returned) => (acc' = acc /\ calls' = calls)]_vars

\* The loop broke on the second item of three: it has seen two pairs with
\* nil errors and All has returned.
C26_Witness ==
    /\ cfg.term.kind = "All"
    /\ cfg.term.errOn # {}
    /\ Returned
    /\ ~TokenCancelled
    /\ Len(acc) = 2
    /\ Len(AllStream) = 3
    /\ acc[2][2] = "nil"

\* The loop over All broke on an item while the source had more to give.
BrokeEarly ==
    /\ cfg.term.kind = "All"
    /\ Returned
    /\ acc # <<>>
    /\ acc[Len(acc)][2] = "nil"
    /\ acc[Len(acc)][1] \in cfg.term.errOn
    /\ t[0].idx <= Len(cfg.src.items) \/ Pushing(0)

\* C28 as stated: after the loop over All broke early, the tasks upstream
\* come to an end and close their channels; none stays in push for ever.
\* As a property of finite runs: in no state after the break is a task still
\* inside its function while no step of the pipeline is possible.
C28_UpstreamEndsAfterBreak ==
    BrokeEarly =>
        \/ \A id \in DOMAIN t : HasOut(id) => (Terminated(id) /\ ch[OutCh(id)].closed)
        \/ ENABLED NextAll

IsPrefix(p, s) == Len(p) <= Len(s) /\ \A i \in 1..Len(p) : p[i] = s[i]

\* A chain of sequential stages in which every Batch is undone by the
\* UnBatch right behind it.
SequentialChain ==
    /\ \A i \in 1..NumStages :
          /\ cfg.stages[i].kind \in {"Map", "Filter", "FilterMap", "Batch", "UnBatch"}
          /\ cfg.stages[i].kind = "Batch" => (i < NumStages /\ cfg.stages[i + 1].kind = "UnBatch")
          /\ cfg.stages[i].kind = "UnBatch" => (i > 1 /\ cfg.stages[i - 1].kind = "Batch")
    /\ cfg.term.kind # "All"

\* C27: through a source and sequential stages the items the terminal
\* callback has been invoked on are at every moment a prefix of what an
\* uninterrupted run delivers, also in runs ended by an error of the source,
\* an error of a callback or a cancellation.
C27_CallsArePrefix ==
    SequentialChain => IsPrefix(calls, StreamAfter(cfg.stages, cfg.src.items))

\* The source failed after two of three items behind Map, Batch(2) and
\* UnBatch: the terminal callback has seen the two, and the run is over.
C27_Witness ==
    /\ Kinds(cfg) = <<"Map", "Batch", "UnBatch">>
    /\ cfg.stages[2].size = 2
    /\ t[0].ret = "errSeq"
    /\ Len(calls) = 2
    /\ Len(cfg.src.items) = 3
    /\ Returned

\* The batches a Batch as last stage has pushed downstream, oldest first:
\* those the terminal callback has seen, the one the terminal holds, those
\* waiting in the channel.
PushedBatches ==
    LET d == t[Tid(TermStage)]
    IN  calls \o (IF d.pc \in {"check", "call"} THEN <<d.elem>> ELSE <<>>) \o ch[NumStages].buf

\* The one batch the terminal received and let go of without calling its
\* callback, when its check found the context cancelled (a full batch
\* whenever Batch has another one to push afterwards).
DroppedBatch == IF t[Tid(TermStage)].ret = "Canceled" THEN 1 ELSE 0

\* C29: every batch Batch(k) has pushed is non-empty and no longer than k,
\* all but the last one pushed have exactly k items, and the batches in a
\* row are the first upstream items in upstream order, each item once; also
\* in runs cut short by cancellation or an upstream error.
C29_BatchesInCutRuns ==
    (NumStages >= 1 /\ cfg.stages[NumStages].kind = "Batch" /\ cfg.term.kind # "All") =>
        LET k == cfg.stages[NumStages].size
            bs == PushedBatches
            up == StreamAfter(SubSeq(cfg.stages, 1, NumStages - 1), cfg.src.items)
        IN  /\ \A i \in 1..Len(bs) : Len(bs[i]) \in 1..k
            /\ \A i \in 1..(Len(bs) - 1) : Len(bs[i]) = k
            /\ IsPrefix(Flatten(bs), up)
            /\ Pushing(Tid(NumStages)) =>
                  LET out == t[Tid(NumStages)].out
                      n == Len(Flatten(bs)) + DroppedBatch * k
                  IN  /\ Len(out) \in 1..k
                      /\ n + Len(out) <= Len(up)
                      /\ out = SubSeq(up, n + 1, n + Len(out))

\* The source failed after three items in front of Batch(2): a full batch
\* and then the flushed batch of one item were pushed, and the caller
\* cancelled as well.
C29_Witness ==
    /\ Kinds(cfg) = <<"Batch">>
    /\ cfg.stages[1].size = 2
    /\ t[0].ret = "errSeq"
    /\ Len(calls) = 2
    /\ Len(calls[1]) = 2
    /\ Len(calls[2]) = 1

\* How many items of the source have left it for the workers of stage 1:
\* those the sequence has yielded, less the one still in push, the one a
\* cancelled push gave up, and those waiting in the channel.
SentUpstream ==
    (t[0].idx - 1) - (IF Pushing(0) THEN 1 ELSE 0)
                   - (IF t[0].ret = "Canceled" THEN 1 ELSE 0) - Len(ch[0].buf)

SentCount(v) == Cardinality({i \in 1..SentUpstream : cfg.src.items[i] = v})

\* The workers that hold the item v: received, callback not yet returned.
HeldCount(v) == Cardinality({w \in Workers(1) : t[w].pc = "call" /\ t[w].elem = v})

\* What has left the callbacks of the workers and is still to be seen: the
\* items the terminal callback has seen, the one the terminal holds, those in
\* the channel, and those the workers are pushing.
Downstream ==
    LET d == t[Tid(TermStage)]
    IN  calls \o (IF d.pc \in {"check", "call"} THEN <<d.elem>> ELSE <<>>) \o ch[1].buf

EmittedCount(o) ==
    Cardinality({i \in 1..Len(Downstream) : Downstream[i] = o})
    + Cardinality({w \in Workers(1) : Pushing(w) /\ t[w].out = o})

RECURSIVE SumOver(_, _)
SumOver(f, S) ==
    IF S = {} THEN 0
    ELSE LET x == CHOOSE y \in S : TRUE IN f[x] + SumOver(f, S \ {x})

\* C30: in a parallel stage every item the source has sent is in the hands
\* of at most one worker, and what the workers have emitted comes from items
\* received and no longer held, each at most once; so emitted plus excluded
\* plus held never exceeds what was received.
C30_WorkersShareItems ==
    (NumStages = 1 /\ IsPar(1) /\ ~cfg.src.loop) =>
        LET st == cfg.stages[1]
            gone == [v \in Vals |-> SentCount(v) - HeldCount(v)]
            good == {v \in Vals : CallbackOf(st, v).err = "nil" /\ CallbackOf(st, v).ok}
            excl == {v \in Vals : CallbackOf(st, v).err = "nil" /\ ~CallbackOf(st, v).ok}
            held == SumOver([v \in Vals |-> HeldCount(v)], Vals)
            emitted == Len(Downstream) + Cardinality({w \in Workers(1) : Pushing(w)})
        IN  /\ SentUpstream \in 0..Len(cfg.src.items)
            /\ \A v \in Vals : HeldCount(v) <= SentCount(v)
            /\ held = Cardinality({w \in Workers(1) : t[w].pc = "call"})
            /\ \A o \in {Downstream[i] : i \in 1..Len(Downstream)}
                        \cup {t[w].out : w \in {x \in Workers(1) : Pushing(x)}} :
                  EmittedCount(o) <=
                      SumOver(gone, {v \in good : CallbackOf(st, v).val = o})
            /\ emitted + SumOver(gone, excl) + held <= SentUpstream

\* Two workers hold the second and the third item while the first one has
\* gone through the stage to the terminal callback.
C30_Witness ==
    /\ NumStages = 1
    /\ IsPar(1)
    /\ Cardinality({w \in Workers(1) : t[w].pc = "call"}) = 2
    /\ Len(calls) = 1
    /\ SentUpstream = 3

====
